---- MODULE Spec2Model ----
(***************************************************************************)
(* A model of the MeArm controller: the joint model of MeArm.py (angles,   *)
(* limits, inversion, homing), the control stick arbitration of            *)
(* MeArmServer.py, and the write path of the I2C service.                  *)
(*                                                                         *)
(* Angles are counted in tenths of a degree (the resolution goto()         *)
(* documents), pulse widths in microseconds, time in seconds.              *)
(***************************************************************************)
EXTENDS Integers, Sequences, FiniteSets, TLC

VARIABLES
    now,            \* time.time()
    controlStick,   \* cherrypy.controlStick: None or the holder's dict
    session,        \* cherrypy.session['id'] of each client's session
    req,            \* the request each client has in progress, and where it is
    last,           \* the response just sent (kept until the next request or tick)
    served,         \* the number of requests counted against MaxRequests
    joint,          \* MeArm: the joint definitions (min, max, home, inv, gpio)
    io,             \* pigpio: the servo pulse width of each gpio
    driven,         \* the joint the callers address
    call,           \* the MeArm call just made, with the state it started from
    thr,            \* I2C service: the register operation each thread is in
    wire,           \* the I2C bus: the register addressed last, and by whom
    xfer,           \* the MeArmI2C call that returned or raised just now
    work,           \* GPIO service: the MeArm call each thread is in, by line
    look,           \* the limits a GET of the joint has read so far
    qt              \* qtest: where it is, its angle a and its step

leaseVars == <<now, controlStick, session, req, last, served>>
armVars == <<joint, io, driven, call>>
busVars == <<thr, wire, xfer>>
stepVars == <<work, look, qt>>
vars == <<now, controlStick, session, req, last, served, joint, io, driven, call,
          thr, wire, xfer, work, look, qt>>

----------------------------------------------------------------------------
(* Bounds of the model *)

MaxTicks == 3
MaxRequests == 3
TickSteps == {10, 60}
Clients == {"c1", "c2"}
Joints == {"base", "shoulder", "wrist", "grip"}
JointOrder == <<"base", "shoulder", "wrist", "grip">>

----------------------------------------------------------------------------
(* MeArm.py *)

\* getPos() returns None for a servo that is off; Python 2 orders None below
\* every number, which this number keeps.
NoPos == -1000000
\* "argument not given" of setLimit (minL=None, maxL=None)
NoArg == -2000000

pwMin == 550
pwMax == 2500

armDef ==
    [base     |-> [gpio |-> 4,  min |-> 0,   max |-> 1800, home |-> 900, inv |-> TRUE],
     shoulder |-> [gpio |-> 17, min |-> 500, max |-> 1400, home |-> 900, inv |-> FALSE],
     wrist    |-> [gpio |-> 27, min |-> 500, max |-> 1400, home |-> 900, inv |-> FALSE],
     grip     |-> [gpio |-> 22, min |-> 800, max |-> 1000, home |-> 900, inv |-> FALSE]]

GPIOs == {armDef[j].gpio : j \in Joints}

\* int((a * pwPdeg) + pwMin) with pwPdeg = (pwMax - pwMin) / 180.0; a in tenths.
\* The double evaluation agrees with the exact quotient for every a in 0..1800.
angleToPulse(a) == ((a * (pwMax - pwMin)) \div 1800) + pwMin

\* round(calcDeg + 0.05, 1) is a tie exactly when p - pwMin is a multiple of
\* 13 us (calcDeg a multiple of 1.2 degrees); there the double arithmetic
\* decides: for these multiples the sum lies at or above the tie and Python 2
\* rounds it up, for the others it lies below.
TieUp ==
    {0, 1, 7, 8, 10, 11, 13, 14, 15, 16, 20, 21, 25, 26, 56, 61, 107, 108,
     110, 111, 112, 113, 115, 116, 117, 118, 120, 121, 122, 123, 125, 126,
     127, 128, 130, 131, 133, 135, 136, 138, 140, 141, 143, 145, 146, 148, 150}

\* pulseToAngle with a bias of 0.15 instead of 0.05
pulseToAngle_Bias15(p) ==
    (((p - pwMin) * 1800) \div (pwMax - pwMin)) + 2

pulseToAngle(p) ==
    LET num == (p - pwMin) * 1800
        den == pwMax - pwMin
    IN  IF num % den = 0
        THEN (num \div den) + (IF ((p - pwMin) \div 13) \in TieUp THEN 1 ELSE 0)
        ELSE (num \div den) + 1

getPos(jt, pins) ==
    IF pins[jt.gpio] = 0 THEN NoPos ELSE pulseToAngle(pins[jt.gpio])

\* The state the MeArm methods work on: the joint dictionaries, the pulse
\* widths, and the set_servo_pulsewidth calls made so far.
Arm(jts, pins) == [joint |-> jts, io |-> pins, writes |-> <<>>]

Raise(A, exc) == [arm |-> A, exc |-> exc, ret |-> NoPos]
Return(A, ret) == [arm |-> A, exc |-> "none", ret |-> ret]

\* goto with the lower limit left out of the check
goto_NoMinCheck(A, j, pos) ==
    LET jt == A.joint[j] IN
    IF pos <= jt.max
    THEN LET a  == IF jt.inv THEN jt.max - (pos - jt.min) ELSE pos
             pw == angleToPulse(a)
             B  == [A EXCEPT !.io[jt.gpio] = pw,
                             !.writes = Append(@, [gpio |-> jt.gpio, pw |-> pw])]
         IN  Return(B, getPos(jt, B.io))
    ELSE Raise(A, "ValueError")

\* goto with the inversion taken from max alone
goto_InvertFromMax(A, j, pos) ==
    LET jt == A.joint[j] IN
    IF jt.min <= pos /\ pos <= jt.max
    THEN LET a  == IF jt.inv THEN jt.max - pos ELSE pos
             pw == angleToPulse(a)
             B  == [A EXCEPT !.io[jt.gpio] = pw,
                             !.writes = Append(@, [gpio |-> jt.gpio, pw |-> pw])]
         IN  Return(B, getPos(jt, B.io))
    ELSE Raise(A, "ValueError")

\* goto that returns the angle it was asked for
goto_ReturnsTarget(A, j, pos) ==
    LET jt == A.joint[j] IN
    IF jt.min <= pos /\ pos <= jt.max
    THEN LET a  == IF jt.inv THEN jt.max - (pos - jt.min) ELSE pos
             pw == angleToPulse(a)
             B  == [A EXCEPT !.io[jt.gpio] = pw,
                             !.writes = Append(@, [gpio |-> jt.gpio, pw |-> pw])]
         IN  Return(B, pos)
    ELSE Raise(A, "ValueError")

goto(A, j, pos) ==
    LET jt == A.joint[j] IN
    IF jt.min <= pos /\ pos <= jt.max
    THEN LET a  == IF jt.inv THEN jt.max - (pos - jt.min) ELSE pos
             pw == angleToPulse(a)
             B  == [A EXCEPT !.io[jt.gpio] = pw,
                             !.writes = Append(@, [gpio |-> jt.gpio, pw |-> pw])]
         IN  Return(B, getPos(jt, B.io))
    ELSE Raise(A, "ValueError")

home(A, j) ==
    LET r == goto(A, j, A.joint[j].home) IN [r EXCEPT !.ret = NoPos]

\* homeAll that goes on to the next joint when one cannot be homed
RECURSIVE homeFrom_KeepGoing(_, _)
homeFrom_KeepGoing(A, i) ==
    IF i > Len(JointOrder) THEN Return(A, NoPos)
    ELSE LET r == home(A, JointOrder[i])
         IN  IF r.exc # "none"
             THEN [homeFrom_KeepGoing(r.arm, i + 1) EXCEPT !.exc = r.exc]
             ELSE homeFrom_KeepGoing(r.arm, i + 1)

RECURSIVE homeFrom(_, _)
homeFrom(A, i) ==
    IF i > Len(JointOrder) THEN Return(A, NoPos)
    ELSE LET r == home(A, JointOrder[i])
         IN  IF r.exc # "none" THEN r ELSE homeFrom(r.arm, i + 1)

homeAll(A) == homeFrom(A, 1)

\* The two min checks call .format on the ValueError instance, which raises
\* AttributeError instead of the ValueError.
setLimitMin(A, j, minL, maxL) ==
    LET mx == IF maxL # NoArg THEN maxL ELSE A.joint[j].max IN
    IF minL > mx THEN Raise(A, "AttributeError")
    ELSE IF minL < 0 THEN Raise(A, "AttributeError")
    ELSE LET B == [A EXCEPT !.joint[j].min = minL]
         IN  IF getPos(B.joint[j], B.io) < minL
             THEN goto(B, j, minL)
             ELSE Return(B, NoPos)

setLimitMax(A, j, maxL) ==
    IF maxL < A.joint[j].min THEN Raise(A, "ValueError")
    ELSE IF maxL > 1800 THEN Raise(A, "ValueError")
    ELSE LET B == [A EXCEPT !.joint[j].max = maxL]
         IN  IF getPos(B.joint[j], B.io) > maxL
             THEN goto(B, j, maxL)
             ELSE Return(B, NoPos)

setLimit(A, j, minL, maxL) ==
    LET r1 == IF minL # NoArg THEN setLimitMin(A, j, minL, maxL) ELSE Return(A, NoPos)
    IN  IF r1.exc # "none" THEN r1
        ELSE LET r2 == IF maxL # NoArg THEN setLimitMax(r1.arm, j, maxL)
                       ELSE Return(r1.arm, NoPos)
             IN  [r2 EXCEPT !.ret = NoPos]

\* MeArm(**def): the constructor stores the definitions and homes all joints.
MeArmNew(def) == homeAll(Arm(def, [g \in GPIOs |-> 0]))

MeArmInit == MeArmNew(armDef)

----------------------------------------------------------------------------
(* Calls of the MeArm methods, as a program using the class makes them *)

Angles == {0, 500, 900, 1000, 1400, 1800}
LimitArgs == {NoArg, -10, 0, 500, 600, 1400, 1800, 1810}

CallRecord(op, j, pos, minL, maxL, r) ==
    [op |-> op, j |-> j, pos |-> pos, minL |-> minL, maxL |-> maxL,
     exc |-> r.exc, ret |-> r.ret, writes |-> r.arm.writes,
     joint0 |-> joint, io0 |-> io]

Commit(op, j, pos, minL, maxL, r) ==
    /\ joint' = r.arm.joint
    /\ io' = r.arm.io
    /\ call' = CallRecord(op, j, pos, minL, maxL, r)
    /\ UNCHANGED driven

CallGoto(pos) ==
    /\ Commit("goto", driven, pos, NoArg, NoArg, goto(Arm(joint, io), driven, pos))
    /\ UNCHANGED <<leaseVars, busVars, stepVars>>

CallHome ==
    /\ Commit("home", driven, NoArg, NoArg, NoArg, home(Arm(joint, io), driven))
    /\ UNCHANGED <<leaseVars, busVars, stepVars>>

CallHomeAll ==
    /\ Commit("homeAll", driven, NoArg, NoArg, NoArg, homeAll(Arm(joint, io)))
    /\ UNCHANGED <<leaseVars, busVars, stepVars>>

CallSetLimit(minL, maxL) ==
    /\ Commit("setLimit", driven, NoArg, minL, maxL,
              setLimit(Arm(joint, io), driven, minL, maxL))
    /\ UNCHANGED <<leaseVars, busVars, stepVars>>

----------------------------------------------------------------------------
(* MeArmServer.py: the control stick *)

CONTROL_STICK_TIMEOUT == 60

None == [none |-> TRUE]
NoId == "no id"

InitArm ==
    /\ joint = MeArmInit.arm.joint
    /\ io = MeArmInit.arm.io
    /\ driven \in Joints
    /\ call = [op |-> "init", j |-> driven, pos |-> NoArg, minL |-> NoArg,
               maxL |-> NoArg, exc |-> MeArmInit.exc, ret |-> NoPos,
               writes |-> MeArmInit.arm.writes,
               joint0 |-> armDef, io0 |-> [g \in GPIOs |-> 0]]

IdleReq == [pc |-> "idle"]
NoLast == [op |-> "-"]

InitLease ==
    /\ now = 0
    /\ controlStick = None
    /\ session = [c \in Clients |-> NoId]
    /\ req = [c \in Clients |-> IdleReq]
    /\ last = NoLast
    /\ served = 0

\* The worker threads of the I2C service that are followed
Threads == {"t1", "t2"}
IdleThr == [pc |-> "idle"]
NoXfer == [op |-> "-"]

\* MeArmI2C(42): nothing has been sent on the bus yet
InitBus ==
    /\ thr = [t \in Threads |-> IdleThr]
    /\ wire = [reg |-> 0, by |-> "nobody"]
    /\ xfer = NoXfer

\* A MeArm call in progress in a thread: the line it is at (pc), the method
\* called (op) with its arguments, the argument of the goto it is in (pos) and
\* where that goto returns to (ret), the pulse widths it has written, the
\* exception it ended with, the joint and the pulse widths as they were when
\* the call began (j0, io0) and the number of calls the thread has made (n).
IdleWork ==
    [pc |-> "idle", op |-> "-", pos |-> NoArg, minL |-> NoArg, maxL |-> NoArg,
     ret |-> "-", wrote |-> <<>>, exc |-> "none", got |-> NoPos, j0 |-> None,
     io0 |-> None, n |-> 0]

\* A GET of the limits: nothing read yet
IdleLook == [pc |-> "idle", min |-> NoArg, max |-> NoArg, during |-> <<>>]

\* qtest has not been called
IdleQtest ==
    [pc |-> "idle", i |-> 0, a |-> 0, step |-> 0, writes |-> <<>>, skipped |-> FALSE]

InitSteps ==
    /\ work = [t \in Threads |-> IdleWork]
    /\ look = IdleLook
    /\ qt = IdleQtest

Init == InitArm /\ InitLease /\ InitBus /\ InitSteps

\* A display name is a sequence of characters; NoName is the keyword left
\* out of the request (name=None).
NoName == <<"None">>
Anonymous == <<"A", "n", "o", "n", "y", "m", "o", "u", "s">>
NameArgs == {NoName, <<" ">>, <<" ", "b">>}

RECURSIVE lstrip(_)
lstrip(s) == IF s # <<>> /\ Head(s) = " " THEN lstrip(Tail(s)) ELSE s

RECURSIVE rstrip(_)
rstrip(s) ==
    IF s # <<>> /\ s[Len(s)] = " " THEN rstrip(SubSeq(s, 1, Len(s) - 1)) ELSE s

strip(s) == rstrip(lstrip(s))

\* cherrypy.request.remote.ip
RemoteIp(c) == <<"ip", c>>

\* A JSON document is the sequence of its items in the order the handler's
\* loop meets them; NoJson is a request without one.
Item(k, v, type) == [k |-> k, v |-> v, type |-> type]
NoJson == <<Item("no json", 0, "none")>>
PutDocs == {NoJson, <<Item("pos", 1000, "int")>>, <<Item("min", 1000, "int")>>,
            <<Item("max", 1810, "float")>>}

Ops == {"stickGET", "stickDELETE", "jointGET", "jointPUT"}

\* Joint.PUT is the one handler that has the tool raise (noControlError=True)
noControlError(op) == op = "jointPUT"

AllIdle == \A c \in Clients : req[c].pc = "idle"

\* The clock advances in steps of 10 or 60 seconds, MaxTicks times at most
\* (below six steps their number can be read off the clock).
Ticks == ((now % 60) \div 10) + (now \div 60)

Tick(d) ==
    /\ Ticks < MaxTicks
    /\ now' = now + d
    /\ last' = NoLast
    /\ UNCHANGED <<controlStick, session, req, served>>
    /\ UNCHANGED <<armVars, busVars, stepVars>>

\* A request arrives: lines 70 and 73 of the tool, which touch the request and
\* the session only.
StartRequest(c, op, name, doc) ==
    /\ req[c].pc = "idle"
    /\ req' = [req EXCEPT ![c] =
                  [pc |-> "checkNone", op |-> op, name |-> name, doc |-> doc,
                   sid |-> session[c], inControl |-> FALSE, ref |-> None,
                   stick0 |-> controlStick, t0 |-> now]]
    /\ last' = NoLast
    /\ UNCHANGED <<now, controlStick, session>>
    /\ UNCHANGED <<armVars, busVars, stepVars>>

Answer(status, err) ==
    [status |-> status, err |-> err, msgName |-> NoName, msgIp |-> <<>>,
     msgSecs |-> 0, writes |-> <<>>, bus |-> <<>>, exc |-> "none"]

\* The response of the request of client c
Respond(c, answer, stick2) ==
    /\ controlStick' = stick2
    /\ req' = [req EXCEPT ![c] = IdleReq]
    /\ last' = answer @@
               [server |-> "GPIO", client |-> c, op |-> req[c].op,
                name |-> req[c].name, doc |-> req[c].doc, sid |-> req[c].sid,
                inControl |-> req[c].inControl, stick0 |-> req[c].stick0,
                t0 |-> req[c].t0, joint0 |-> joint, io0 |-> io]
    /\ UNCHANGED <<now, served>>

\* An exception no handler catches: cherrypy answers 500
Crash(c) == Respond(c, Answer(500, "crash"), controlStick)

\* The request of client c moves on to pc
Move(c, pc, stick2) ==
    /\ controlStick' = stick2
    /\ req' = [req EXCEPT ![c].pc = pc]
    /\ UNCHANGED <<now, last, served>>

\* line 79 of the tool finds the caller not in control
NotInControl(c) ==
    IF noControlError(req[c].op)
    THEN Respond(c, Answer(400, "no control"), controlStick)
    ELSE Move(c, "handler", controlStick)

\* checkControlExpiration, line 33
CheckNone(c) ==
    /\ req[c].pc = "checkNone"
    /\ IF controlStick = None
       THEN Move(c, "ownNone", controlStick)
       ELSE Move(c, "checkTime", controlStick)
    /\ UNCHANGED session /\ UNCHANGED <<armVars, busVars, stepVars>>

\* A variant of line 36 that lets the stick lapse already at now = tmout
CheckTime_LapseAtTmout(c) ==
    /\ req[c].pc = "checkTime"
    /\ IF controlStick = None THEN Crash(c)
       ELSE IF now >= controlStick.tmout
            THEN Move(c, "checkClear", controlStick)
            ELSE Move(c, "ownNone", controlStick)
    /\ UNCHANGED session /\ UNCHANGED <<armVars, busVars, stepVars>>

\* checkControlExpiration, line 36
CheckTime(c) ==
    /\ req[c].pc = "checkTime"
    /\ IF controlStick = None THEN Crash(c)
       ELSE IF now > controlStick.tmout
            THEN Move(c, "checkClear", controlStick)
            ELSE Move(c, "ownNone", controlStick)
    /\ UNCHANGED session /\ UNCHANGED <<armVars, busVars, stepVars>>

\* checkControlExpiration, line 38
CheckClear(c) ==
    /\ req[c].pc = "checkClear"
    /\ Move(c, "ownNone", None)
    /\ UNCHANGED session /\ UNCHANGED <<armVars, busVars, stepVars>>

\* controlStickTool, line 79, first operand
OwnNone(c) ==
    /\ req[c].pc = "ownNone"
    /\ IF controlStick = None THEN NotInControl(c)
       ELSE Move(c, "ownSid", controlStick)
    /\ UNCHANGED session /\ UNCHANGED <<armVars, busVars, stepVars>>

\* controlStickTool, line 79, second operand
OwnSid(c) ==
    /\ req[c].pc = "ownSid"
    /\ IF controlStick = None THEN Crash(c)
       ELSE IF controlStick.sid # req[c].sid THEN NotInControl(c)
            ELSE Move(c, "extend", controlStick)
    /\ UNCHANGED session /\ UNCHANGED <<armVars, busVars, stepVars>>

\* controlStickTool, lines 85 to 87
Extend(c) ==
    /\ req[c].pc = "extend"
    /\ IF controlStick = None THEN Crash(c)
       ELSE /\ controlStick' =
                  [controlStick EXCEPT !.tmout = now + CONTROL_STICK_TIMEOUT]
            /\ req' = [req EXCEPT ![c].pc = "handler", ![c].inControl = TRUE]
            /\ UNCHANGED <<now, last, served>>
    /\ UNCHANGED session /\ UNCHANGED <<armVars, busVars, stepVars>>

\* ControlStick.GET, lines 302 to 305
GetCheck(c) ==
    /\ req[c].pc = "handler" /\ req[c].op = "stickGET"
    /\ IF req[c].name = NoName THEN Crash(c)
       ELSE IF controlStick # None /\ ~req[c].inControl
            THEN Move(c, "getMsgStick", controlStick)
            ELSE Move(c, "getAvail", controlStick)
    /\ UNCHANGED session /\ UNCHANGED <<armVars, busVars, stepVars>>

\* ControlStick.GET, line 307: the dict the message is formatted from
GetMsgStick(c) ==
    /\ req[c].pc = "getMsgStick"
    /\ req' = [req EXCEPT ![c].pc = "getMsgTime", ![c].ref = controlStick]
    /\ UNCHANGED <<now, controlStick, session, last, served>>
    /\ UNCHANGED <<armVars, busVars, stepVars>>

\* ControlStick.GET, lines 308 and 309
GetMsgTime(c) ==
    /\ req[c].pc = "getMsgTime"
    /\ IF controlStick = None \/ req[c].ref = None THEN Crash(c)
       ELSE Respond(c, [Answer(402, "busy") EXCEPT
                           !.msgName = req[c].ref.name,
                           !.msgIp = req[c].ref.ip,
                           !.msgSecs = controlStick.tmout - now],
                    controlStick)
    /\ UNCHANGED session /\ UNCHANGED <<armVars, busVars, stepVars>>

\* ControlStick.GET, line 312, and line 325 when the stick is not free
GetAvail(c) ==
    /\ req[c].pc = "getAvail"
    /\ IF controlStick = None THEN Move(c, "getGrab", controlStick)
       ELSE Respond(c, Answer(200, "none"), controlStick)
    /\ UNCHANGED session /\ UNCHANGED <<armVars, busVars, stepVars>>

\* ControlStick.GET, lines 314 to 325
GetGrab(c) ==
    /\ req[c].pc = "getGrab"
    /\ session' = [session EXCEPT ![c] = IF @ = NoId THEN c ELSE @]
    /\ LET nm == IF strip(req[c].name) = <<>> THEN NoName ELSE strip(req[c].name)
       IN  Respond(c, Answer(200, "none"),
                   [sid |-> session'[c],
                    tmout |-> now + CONTROL_STICK_TIMEOUT,
                    name |-> IF nm = NoName THEN Anonymous ELSE nm,
                    ip |-> RemoteIp(c)])
    /\ UNCHANGED <<armVars, busVars, stepVars>>

\* A variant of DELETE that releases the stick whoever asks
StickDelete_Unchecked(c) ==
    /\ req[c].pc = "handler" /\ req[c].op = "stickDELETE"
    /\ Respond(c, Answer(200, "none"), None)
    /\ UNCHANGED session /\ UNCHANGED <<armVars, busVars, stepVars>>

\* ControlStick.DELETE
StickDelete(c) ==
    /\ req[c].pc = "handler" /\ req[c].op = "stickDELETE"
    /\ IF req[c].inControl
       THEN Respond(c, Answer(200, "none"), None)
       ELSE Respond(c, Answer(400, "not yours"), controlStick)
    /\ UNCHANGED session /\ UNCHANGED <<armVars, busVars, stepVars>>

\* Joint.GET: reads the arm, changes nothing
JointGet(c) ==
    /\ req[c].pc = "handler" /\ req[c].op = "jointGET"
    /\ Respond(c, Answer(200, "none"), controlStick)
    /\ UNCHANGED session /\ UNCHANGED <<armVars, busVars, stepVars>>

\* Joint.PUT, lines 265 to 281: the loop over the items of the document
RECURSIVE putItems(_, _, _, _)
putItems(A, j, doc, i) ==
    IF i > Len(doc) THEN [arm |-> A, status |-> 200, exc |-> "none"]
    ELSE LET it == doc[i] IN
         IF it.k \notin {"pos", "min", "max"}
         THEN [arm |-> A, status |-> 400, exc |-> "HTTPError"]
         ELSE IF it.type \notin {"int", "float"}
         THEN [arm |-> A, status |-> 400, exc |-> "HTTPError"]
         ELSE LET r == IF it.k = "pos" THEN goto(A, j, it.v)
                       ELSE IF it.k = "min" THEN setLimit(A, j, it.v, NoArg)
                       ELSE setLimit(A, j, NoArg, it.v)
              IN  IF r.exc \in {"ValueError", "IOError"}
                  THEN [arm |-> r.arm, status |-> 400, exc |-> r.exc]
                  ELSE IF r.exc # "none"
                  THEN [arm |-> r.arm, status |-> 500, exc |-> r.exc]
                  ELSE putItems(r.arm, j, doc, i + 1)

\* Joint.PUT, lines 257 to 283
putJson(A, j, doc) ==
    IF doc = NoJson THEN [arm |-> A, status |-> 400, exc |-> "HTTPError"]
    ELSE IF Len(doc) = 0 THEN [arm |-> A, status |-> 400, exc |-> "HTTPError"]
    ELSE putItems(A, j, doc, 1)

JointPut(c) ==
    /\ req[c].pc = "handler" /\ req[c].op = "jointPUT"
    /\ LET r == putJson(Arm(joint, io), driven, req[c].doc) IN
       /\ Respond(c, [Answer(r.status, IF r.exc = "none" THEN "none" ELSE "handler")
                         EXCEPT !.writes = r.arm.writes, !.exc = r.exc],
                  controlStick)
       /\ joint' = r.arm.joint
       /\ io' = r.arm.io
    /\ UNCHANGED <<session, driven, call, busVars, stepVars>>

\* One step of the tool for the request of client c
ToolStep(c) ==
    \/ CheckNone(c) \/ CheckTime(c) \/ CheckClear(c)
    \/ OwnNone(c) \/ OwnSid(c) \/ Extend(c)

\* One step of ControlStick.GET
GetStep(c) ==
    \/ GetCheck(c) \/ GetMsgStick(c) \/ GetMsgTime(c) \/ GetAvail(c) \/ GetGrab(c)

Arrive(c) ==
    /\ \/ \E name \in NameArgs : StartRequest(c, "stickGET", name, <<>>)
       \/ StartRequest(c, "stickDELETE", NoName, <<>>)
       \/ StartRequest(c, "jointGET", NoName, <<>>)
       \/ \E doc \in PutDocs : StartRequest(c, "jointPUT", NoName, doc)
    /\ UNCHANGED served

----------------------------------------------------------------------------
(* MeArmControl.py and MeArmServerI2C.py: the write path of the I2C service *)

RegErr == 101
RegBase == 98
RegShoulder == 115
RegWrist == 119
RegGrip == 103
RegSubMin == 193
RegSubMax == 194

OpErrors ==
    (1 :> "eDLen" @@ 2 :> "eNoReg" @@ 4 :> "ePLimit" @@ 8 :> "eSVLimit"
       @@ 16 :> "eSVRange" @@ 32 :> "eInvSubVal")

\* What the error register may answer: no error, two flags at once, one flag
\* of the table, a bit outside the table
ErrBytes == {0, 3, 4, 64}

\* What a read of a joint register may answer
ReadBytes == {45}

\* The most transfers one register operation makes
MaxTransfers == 4

\* What the device and the bus do during one call: val is the byte a value
\* read answers, err the byte the error register answers, and fail the
\* number of the transfer (counted within the call) at which smbus raises
\* IOError, 0 when every transfer goes through.
Devs == [val : ReadBytes, err : ErrBytes, fail : 0 .. MaxTransfers]

\* The device as the callee sees it after n transfers of the caller
Later(dev, n) == [dev EXCEPT !.fail = IF @ > n THEN @ - n ELSE 0]

\* The transfers on the bus, and the settle delay between them
Transfer(op, data) == [op |-> op, data |-> data, ok |-> TRUE]
FailedTransfer(op, data) == [op |-> op, data |-> data, ok |-> FALSE]
Settle == Transfer("sleep", <<>>)

\* A call that ends with smbus raising IOError after the transfers of bus
BusError(bus) == [bus |-> bus, exc |-> "IOError", code |-> "bus", ret |-> NoArg]

\* getError without the settle delay between the write and the read
getError_NoSettle(dev) ==
    IF dev.fail = 1
    THEN BusError(<<FailedTransfer("write_byte", <<RegErr>>)>>)
    ELSE IF dev.fail = 2
    THEN BusError(<<Transfer("write_byte", <<RegErr>>),
                    FailedTransfer("read_byte", <<>>)>>)
    ELSE [bus |-> <<Transfer("write_byte", <<RegErr>>),
                    Transfer("read_byte", <<dev.err>>)>>,
          exc |-> IF dev.err = 0 THEN "none"
                  ELSE IF dev.err \in DOMAIN OpErrors THEN "IOError" ELSE "KeyError",
          code |-> IF dev.err \in DOMAIN OpErrors THEN OpErrors[dev.err] ELSE "",
          ret |-> NoArg]

\* getError: write the address of the error register, settle, read, look up
getError(dev) ==
    IF dev.fail = 1
    THEN BusError(<<FailedTransfer("write_byte", <<RegErr>>)>>)
    ELSE IF dev.fail = 2
    THEN BusError(<<Transfer("write_byte", <<RegErr>>), Settle,
                    FailedTransfer("read_byte", <<>>)>>)
    ELSE [bus |-> <<Transfer("write_byte", <<RegErr>>), Settle,
                    Transfer("read_byte", <<dev.err>>)>>,
          exc |-> IF dev.err = 0 THEN "none"
                  ELSE IF dev.err \in DOMAIN OpErrors THEN "IOError" ELSE "KeyError",
          code |-> IF dev.err \in DOMAIN OpErrors THEN OpErrors[dev.err] ELSE "",
          ret |-> NoArg]

\* getRegister with the value returned before the error register is read
getRegister_NoErrorCheck(reg, dev) ==
    IF dev.fail = 1
    THEN BusError(<<FailedTransfer("write_byte", <<reg>>)>>)
    ELSE IF dev.fail = 2
    THEN BusError(<<Transfer("write_byte", <<reg>>), Settle,
                    FailedTransfer("read_byte", <<>>)>>)
    ELSE [bus |-> <<Transfer("write_byte", <<reg>>), Settle,
                    Transfer("read_byte", <<dev.val>>)>>,
          exc |-> "none", code |-> "", ret |-> dev.val]

getRegister(reg, dev) ==
    IF dev.fail = 1
    THEN BusError(<<FailedTransfer("write_byte", <<reg>>)>>)
    ELSE IF dev.fail = 2
    THEN BusError(<<Transfer("write_byte", <<reg>>), Settle,
                    FailedTransfer("read_byte", <<>>)>>)
    ELSE LET e == getError(Later(dev, 2))
             r == [e EXCEPT !.bus = <<Transfer("write_byte", <<reg>>), Settle,
                                      Transfer("read_byte", <<dev.val>>)>> \o @]
         IN  IF r.exc = "none" THEN [r EXCEPT !.ret = dev.val] ELSE r

getRegisterSubVal(reg, subInd, dev) ==
    IF dev.fail = 1
    THEN BusError(<<FailedTransfer("write_byte_data", <<reg, subInd>>)>>)
    ELSE IF dev.fail = 2
    THEN BusError(<<Transfer("write_byte_data", <<reg, subInd>>), Settle,
                    FailedTransfer("read_byte", <<>>)>>)
    ELSE LET e == getError(Later(dev, 2))
             r == [e EXCEPT !.bus = <<Transfer("write_byte_data", <<reg, subInd>>),
                                      Settle,
                                      Transfer("read_byte", <<dev.val>>)>> \o @]
         IN  IF r.exc = "none" THEN [r EXCEPT !.ret = dev.val] ELSE r

setRegister(reg, val, dev) ==
    IF dev.fail = 1
    THEN BusError(<<FailedTransfer("write_byte_data", <<reg, val>>)>>)
    ELSE LET e == getError(Later(dev, 1))
         IN  [e EXCEPT !.bus = <<Transfer("write_byte_data", <<reg, val>>), Settle>> \o @]

setRegisterSubValue(reg, subInd, val, dev) ==
    IF dev.fail = 1
    THEN BusError(<<FailedTransfer("write_i2c_block_data", <<reg, subInd, val>>)>>)
    ELSE LET e == getError(Later(dev, 1))
         IN  [e EXCEPT !.bus =
                 <<Transfer("write_i2c_block_data", <<reg, subInd, val>>), Settle>> \o @]

\* joint that reads the register back after setting it
MeArmI2C_joint_ReadBack(name, pos, dev) ==
    IF pos = NoArg THEN getRegister(name, dev)
    ELSE LET r == setRegister(name, pos, dev)
         IN  IF r.exc # "none" THEN r
             ELSE LET g == getRegister(name, [dev EXCEPT !.fail = 0])
                  IN  [g EXCEPT !.bus = r.bus \o @]

\* MeArmI2C.joint; pos = NoArg is the call without pos
MeArmI2C_joint(name, pos, dev) ==
    IF pos = NoArg THEN getRegister(name, dev)
    ELSE LET r == setRegister(name, pos, dev)
         IN  IF r.exc = "none" THEN [r EXCEPT !.ret = pos] ELSE r

\* jointLimit that takes every tag other than "min" for "max"
jointLimit_AnyTag(name, limInd, lim, dev) ==
    LET subInd == IF limInd = "min" THEN RegSubMin ELSE RegSubMax IN
    IF lim = NoArg THEN getRegisterSubVal(name, subInd, dev)
    ELSE LET r == setRegisterSubValue(name, subInd, lim, dev)
         IN  IF r.exc = "none" THEN [r EXCEPT !.ret = lim] ELSE r

\* MeArmI2C.jointLimit; lim = NoArg is the call without lim
jointLimit(name, limInd, lim, dev) ==
    IF limInd \notin {"min", "max"}
    THEN [bus |-> <<>>, exc |-> "ValueError", code |-> "", ret |-> NoArg]
    ELSE LET subInd == IF limInd = "min" THEN RegSubMin ELSE RegSubMax IN
         IF lim = NoArg THEN getRegisterSubVal(name, subInd, dev)
         ELSE LET r == setRegisterSubValue(name, subInd, lim, dev)
              IN  IF r.exc = "none" THEN [r EXCEPT !.ret = lim] ELSE r

\* Joint.__init__ of the I2C service: getattr(MeArmI2C, 'Reg' + jointName)
jointReg(j) ==
    CASE j = "base" -> RegBase
      [] j = "shoulder" -> RegShoulder
      [] j = "wrist" -> RegWrist
      [] j = "grip" -> RegGrip

\* Documents sent to the I2C service: whole degrees
I2CDocs == {NoJson, <<Item("pos", 90, "int")>>, <<Item("min", 50, "int")>>,
            <<Item("max", 181, "int")>>}

\* The device and the bus during the calls of one PUT
PutDevs ==
    {dev \in Devs : dev.fail = 0 \/ (dev.fail = 1 /\ dev.err = 0)}

\* Joint.PUT of the I2C service, lines 170 to 187: the loop over the items;
\* rds[i] is what the device and the bus do during the call made for item i.
RECURSIVE i2cPutItems(_, _, _, _, _)
i2cPutItems(reg, doc, rds, i, bus) ==
    IF i > Len(doc) THEN [bus |-> bus, status |-> 200, exc |-> "none"]
    ELSE LET it == doc[i] IN
         IF it.k \notin {"pos", "min", "max"}
         THEN [bus |-> bus, status |-> 400, exc |-> "HTTPError"]
         ELSE IF it.type # "int"
         THEN [bus |-> bus, status |-> 400, exc |-> "HTTPError"]
         ELSE IF ~(0 <= it.v /\ it.v <= 180)
         THEN [bus |-> bus, status |-> 400, exc |-> "HTTPError"]
         ELSE LET r == IF it.k = "pos" THEN MeArmI2C_joint(reg, it.v, rds[i])
                       ELSE jointLimit(reg, it.k, it.v, rds[i])
              IN  IF r.exc \in {"ValueError", "IOError"}
                  THEN [bus |-> bus \o r.bus, status |-> 400, exc |-> r.exc]
                  ELSE IF r.exc # "none"
                  THEN [bus |-> bus \o r.bus, status |-> 500, exc |-> r.exc]
                  ELSE i2cPutItems(reg, doc, rds, i + 1, bus \o r.bus)

\* Joint.PUT of the I2C service, lines 162 to 189
i2cPutJson(reg, doc, rds) ==
    IF doc = NoJson THEN [bus |-> <<>>, status |-> 400, exc |-> "HTTPError"]
    ELSE IF Len(doc) = 0 THEN [bus |-> <<>>, status |-> 400, exc |-> "HTTPError"]
    ELSE i2cPutItems(reg, doc, rds, 1, <<>>)

\* A PUT request of client c to the I2C service, which has no control stick
\* and no tool in front of its handlers.
I2CJointPut(c, doc, rds) ==
    /\ LET r == i2cPutJson(jointReg(driven), doc, rds) IN
       last' = [Answer(r.status, IF r.exc = "none" THEN "none" ELSE "handler")
                   EXCEPT !.bus = r.bus, !.exc = r.exc] @@
               [server |-> "I2C", client |-> c, op |-> "jointPUT",
                name |-> NoName, doc |-> doc, sid |-> NoId,
                inControl |-> FALSE, stick0 |-> None, t0 |-> now,
                joint0 |-> joint, io0 |-> io]
    /\ UNCHANGED <<now, controlStick, session, req, served>>
    /\ UNCHANGED <<armVars, busVars, stepVars>>

\* The service follows the requests to one joint's endpoint
InitService == Init /\ driven = "shoulder"

\* Requests served one after the other, each within one reading of the clock
Next ==
    \/ \E d \in TickSteps : AllIdle /\ Tick(d)
    \/ \E c \in Clients : AllIdle /\ Arrive(c)
    \/ \E c \in Clients : ToolStep(c) \/ GetStep(c)
    \/ \E c \in Clients : StickDelete(c) \/ JointGet(c) \/ JointPut(c)
    \/ \E c \in Clients, doc \in I2CDocs :
           \E rds \in [1 .. Len(doc) -> PutDevs] :
               AllIdle /\ I2CJointPut(c, doc, rds)

Spec == InitService /\ [][Next]_vars

\* Requests of different sessions served by the threads of the pool, a thread
\* being switched at any access to cherrypy.controlStick; MaxRequests
\* requests in all.
ArriveConc(c) ==
    /\ served < MaxRequests
    /\ served' = served + 1
    /\ \/ StartRequest(c, "stickGET", <<" ", "b">>, <<>>)
       \/ StartRequest(c, "stickDELETE", NoName, <<>>)
       \/ StartRequest(c, "jointGET", NoName, <<>>)

NextConc ==
    \/ \E d \in TickSteps : Tick(d)
    \/ \E c \in Clients : ArriveConc(c)
    \/ \E c \in Clients : ToolStep(c) \/ GetStep(c)
    \/ \E c \in Clients : StickDelete(c) \/ JointGet(c)

SpecConc == InitService /\ [][NextConc]_vars

NextArm ==
    \/ \E pos \in Angles : CallGoto(pos)
    \/ CallHome
    \/ CallHomeAll
    \/ \E minL \in LimitArgs, maxL \in LimitArgs : CallSetLimit(minL, maxL)

SpecArm == Init /\ [][NextArm]_vars

----------------------------------------------------------------------------
(* The conversions between angle and pulse width, applied to every angle *)

\* angleToPulse(a) followed by pulseToAngle, for a in tenths of a degree
Convert(a) ==
    /\ call' = [op |-> "convert", a |-> a, pw |-> angleToPulse(a),
                back |-> pulseToAngle(angleToPulse(a))]
    /\ UNCHANGED <<joint, io, driven>>
    /\ UNCHANGED <<leaseVars, busVars, stepVars>>

NextConv == \E a \in 0 .. 1800 : Convert(a)

SpecConv == InitService /\ [][NextConv]_vars

----------------------------------------------------------------------------
(* MeArmControl.py on the shared bus: the calls of the service's threads *)

Regs == {RegBase, RegGrip}

\* A call of a MeArmI2C method: val = NoArg is the argument left out
BusCallOf(op, reg, sub, tag, val) ==
    [op |-> op, reg |-> reg, sub |-> sub, tag |-> tag, val |-> val]

BusCalls ==
    {BusCallOf("getError", RegErr, 0, "", NoArg)}
      \cup {BusCallOf("getRegister", reg, 0, "", NoArg) : reg \in Regs}
      \cup {BusCallOf("getRegisterSubVal", RegBase, sub, "", NoArg) :
               sub \in {RegSubMin, RegSubMax}}
      \cup {BusCallOf("setRegister", reg, 0, "", 90) : reg \in Regs}
      \cup {BusCallOf("setRegisterSubValue", RegBase, sub, "", 90) :
               sub \in {RegSubMin, RegSubMax}}
      \cup {BusCallOf("joint", RegBase, 0, "", val) : val \in {NoArg, 90}}
      \cup {BusCallOf("jointLimit", RegBase, 0, tag, val) :
               tag \in {"min", "max", "mid"}, val \in {NoArg, 50}}

\* What the call does when it runs alone
Outcome(c, dev) ==
    CASE c.op = "getError" -> getError(dev)
      [] c.op = "getRegister" -> getRegister(c.reg, dev)
      [] c.op = "getRegisterSubVal" -> getRegisterSubVal(c.reg, c.sub, dev)
      [] c.op = "setRegister" -> setRegister(c.reg, c.val, dev)
      [] c.op = "setRegisterSubValue" -> setRegisterSubValue(c.reg, c.sub, c.val, dev)
      [] c.op = "joint" -> MeArmI2C_joint(c.reg, c.val, dev)
      [] c.op = "jointLimit" -> jointLimit(c.reg, c.tag, c.val, dev)

\* Thread t enters the method; the answers of the device during the call
\* do not depend on anything the model keeps, so they are drawn here.
Enter(t, c, dev) ==
    /\ thr[t].pc = "idle"
    /\ thr' = [thr EXCEPT ![t] = [pc |-> "run", call |-> c, dev |-> dev,
                                  r |-> Outcome(c, dev), i |-> 1,
                                  mixed |-> FALSE]]
    /\ xfer' = NoXfer
    /\ UNCHANGED wire

BusCall(t, c, dev) ==
    /\ Enter(t, c, dev)
    /\ UNCHANGED <<leaseVars, armVars, stepVars>>

\* Thread t makes the next bus transfer, or sleeps the settle delay, of its
\* call: a write addresses a register of the device, and a read is answered
\* from the register addressed last, whoever addressed it.
BusStep(t) ==
    /\ thr[t].pc = "run"
    /\ thr[t].i <= Len(thr[t].r.bus)
    /\ LET x == thr[t].r.bus[thr[t].i] IN
       IF x.op = "sleep" \/ ~x.ok
       THEN /\ thr' = [thr EXCEPT ![t].i = @ + 1]
            /\ UNCHANGED wire
       ELSE IF x.op = "read_byte"
       THEN /\ thr' = [thr EXCEPT ![t].i = @ + 1,
                                  ![t].mixed = @ \/ wire.by # t]
            /\ UNCHANGED wire
       ELSE /\ thr' = [thr EXCEPT ![t].i = @ + 1]
            /\ wire' = [reg |-> x.data[1], by |-> t]
    /\ UNCHANGED xfer
    /\ UNCHANGED <<leaseVars, armVars, stepVars>>

\* The method returns or raises
BusReturn(t) ==
    /\ thr[t].pc = "run"
    /\ thr[t].i > Len(thr[t].r.bus)
    /\ xfer' = thr[t].r @@ thr[t].call @@
               [dev |-> thr[t].dev, thread |-> t, mixed |-> thr[t].mixed]
    /\ thr' = [thr EXCEPT ![t] = IdleThr]
    /\ UNCHANGED wire
    /\ UNCHANGED <<leaseVars, armVars, stepVars>>

AllThreadsIdle == \A t \in Threads : thr[t].pc = "idle"

\* The calls made one after the other
NextI2C ==
    \/ \E t \in Threads, c \in BusCalls, dev \in Devs :
          AllThreadsIdle /\ BusCall(t, c, dev)
    \/ \E t \in Threads : BusStep(t) \/ BusReturn(t)

SpecI2C == InitService /\ [][NextI2C]_vars

\* The calls and answers followed when the threads run side by side
ConcCalls ==
    {BusCallOf("getRegister", RegBase, 0, "", NoArg),
     BusCallOf("setRegister", RegGrip, 0, "", 90)}

ConcDevs == {dev \in Devs : dev.fail = 0 /\ dev.err \in {0, 4}}

\* A request reaches a worker thread of the I2C service (server.thread_pool
\* is 10) while others are being served.
BusCallConc(t, c, dev) ==
    /\ served < MaxRequests
    /\ served' = served + 1
    /\ Enter(t, c, dev)
    /\ UNCHANGED <<now, controlStick, session, req, last>>
    /\ UNCHANGED <<armVars, stepVars>>

NextI2CConc ==
    \/ \E t \in Threads, c \in ConcCalls, dev \in ConcDevs : BusCallConc(t, c, dev)
    \/ \E t \in Threads : BusStep(t) \/ BusReturn(t)

SpecI2CConc == InitService /\ [][NextI2CConc]_vars

----------------------------------------------------------------------------
(* MeArm.py line by line: the calls the threads of the GPIO service make on
   the one MeArm object (server.thread_pool is 10, and nothing is locked) *)

MaxCalls == 1

\* The thread is inside a call
Busy(t) == work[t].pc \notin {"idle", "done"}

\* The record of a thread that enters method op
Entered(t, op, pc, pos, minL, maxL) ==
    [IdleWork EXCEPT !.pc = pc, !.op = op, !.pos = pos, !.minL = minL,
                     !.maxL = maxL, !.ret = "done", !.j0 = joint[driven],
                     !.io0 = io, !.n = work[t].n + 1]

\* Joint.PUT, line 275: the thread calls arm.goto(joint, pos)
GotoEnter(t, pos) ==
    /\ ~Busy(t) /\ work[t].n < MaxCalls
    /\ work' = [work EXCEPT ![t] = Entered(t, "goto", "gotoCheck", pos, NoArg, NoArg)]
    /\ UNCHANGED <<look, qt>>
    /\ UNCHANGED <<leaseVars, armVars, busVars>>

\* goto, line 125, and the raise of lines 130 to 132
GotoCheck(t) ==
    /\ work[t].pc = "gotoCheck"
    /\ LET jt == joint[driven] IN
       work' = [work EXCEPT ![t] =
                   IF jt.min <= @.pos /\ @.pos <= jt.max
                   THEN [@ EXCEPT !.pc = "gotoWrite"]
                   ELSE [@ EXCEPT !.pc = "done", !.exc = "ValueError"]]
    /\ UNCHANGED <<look, qt>>
    /\ UNCHANGED <<leaseVars, armVars, busVars>>

\* set_servo_pulsewidth that sends the pulse width in two bytes, of which only
\* the high one has arrived when the next thread runs
GotoWrite_TwoBytes(t) ==
    /\ work[t].pc = "gotoWrite"
    /\ LET jt == joint[driven]
           a  == IF jt.inv THEN jt.max - (work[t].pos - jt.min) ELSE work[t].pos
           pw == ((angleToPulse(a) \div 256) * 256) + (io[jt.gpio] % 256)
       IN  /\ io' = [io EXCEPT ![jt.gpio] = pw]
           /\ work' = [work EXCEPT ![t].pc = "gotoRead", ![t].wrote = Append(@, pw)]
    /\ UNCHANGED <<joint, driven, call, look, qt>>
    /\ UNCHANGED <<leaseVars, busVars>>

\* goto, lines 127 and 128: one set_servo_pulsewidth command carries the gpio
\* and the whole pulse width
GotoWrite(t) ==
    /\ work[t].pc = "gotoWrite"
    /\ LET jt == joint[driven]
           a  == IF jt.inv THEN jt.max - (work[t].pos - jt.min) ELSE work[t].pos
           pw == angleToPulse(a)
       IN  /\ io' = [io EXCEPT ![jt.gpio] = pw]
           /\ work' = [work EXCEPT ![t].pc = "gotoRead", ![t].wrote = Append(@, pw)]
    /\ UNCHANGED <<joint, driven, call, look, qt>>
    /\ UNCHANGED <<leaseVars, busVars>>

\* goto, line 133: the position read back, and the return to the caller
GotoRead(t) ==
    /\ work[t].pc = "gotoRead"
    /\ work' = [work EXCEPT ![t].pc = work[t].ret,
                            ![t].got = getPos(joint[driven], io)]
    /\ UNCHANGED <<look, qt>>
    /\ UNCHANGED <<leaseVars, armVars, busVars>>

\* The thread calls arm.setLimit(joint, minL, maxL): lines 155 and 170 choose
\* the part to run. Joint.PUT (line 278) passes one limit, a program using the
\* class may pass both.
SetLimitEnter(t, minL, maxL) ==
    /\ ~Busy(t) /\ work[t].n < MaxCalls
    /\ work' = [work EXCEPT ![t] =
                   Entered(t, "setLimit",
                           IF minL # NoArg THEN "setMinCheck"
                           ELSE IF maxL # NoArg THEN "setMaxCheck" ELSE "done",
                           NoArg, minL, maxL)]
    /\ UNCHANGED <<look, qt>>
    /\ UNCHANGED <<leaseVars, armVars, busVars>>

\* Where setLimit goes on after its min part
AfterMin(w) == IF w.maxL # NoArg THEN "setMaxCheck" ELSE "done"

\* setLimit, lines 157 to 163
SetMinCheck(t) ==
    /\ work[t].pc = "setMinCheck"
    /\ LET w  == work[t]
           mx == IF w.maxL # NoArg THEN w.maxL ELSE joint[driven].max
       IN  work' = [work EXCEPT ![t] =
                       IF w.minL > mx \/ w.minL < 0
                       THEN [@ EXCEPT !.pc = "done", !.exc = "AttributeError"]
                       ELSE [@ EXCEPT !.pc = "setMinStore"]]
    /\ UNCHANGED <<look, qt>>
    /\ UNCHANGED <<leaseVars, armVars, busVars>>

\* setLimit, line 165
SetMinStore(t) ==
    /\ work[t].pc = "setMinStore"
    /\ joint' = [joint EXCEPT ![driven].min = work[t].minL]
    /\ work' = [work EXCEPT ![t].pc = "setMinPos"]
    /\ UNCHANGED <<io, driven, call, look, qt>>
    /\ UNCHANGED <<leaseVars, busVars>>

\* setLimit, lines 167 and 168
SetMinPos(t) ==
    /\ work[t].pc = "setMinPos"
    /\ LET w == work[t] IN
       work' = [work EXCEPT ![t] =
                   IF getPos(joint[driven], io) < w.minL
                   THEN [w EXCEPT !.pc = "gotoCheck", !.pos = w.minL,
                                  !.ret = AfterMin(w)]
                   ELSE [w EXCEPT !.pc = AfterMin(w)]]
    /\ UNCHANGED <<look, qt>>
    /\ UNCHANGED <<leaseVars, armVars, busVars>>

\* setLimit, lines 172 to 178
SetMaxCheck(t) ==
    /\ work[t].pc = "setMaxCheck"
    /\ work' = [work EXCEPT ![t] =
                   IF @.maxL < joint[driven].min \/ @.maxL > 1800
                   THEN [@ EXCEPT !.pc = "done", !.exc = "ValueError"]
                   ELSE [@ EXCEPT !.pc = "setMaxStore"]]
    /\ UNCHANGED <<look, qt>>
    /\ UNCHANGED <<leaseVars, armVars, busVars>>

\* setLimit, line 180
SetMaxStore(t) ==
    /\ work[t].pc = "setMaxStore"
    /\ joint' = [joint EXCEPT ![driven].max = work[t].maxL]
    /\ work' = [work EXCEPT ![t].pc = "setMaxPos"]
    /\ UNCHANGED <<io, driven, call, look, qt>>
    /\ UNCHANGED <<leaseVars, busVars>>

\* setLimit, lines 182 and 183
SetMaxPos(t) ==
    /\ work[t].pc = "setMaxPos"
    /\ LET w == work[t] IN
       work' = [work EXCEPT ![t] =
                   IF getPos(joint[driven], io) > w.maxL
                   THEN [w EXCEPT !.pc = "gotoCheck", !.pos = w.maxL, !.ret = "done"]
                   ELSE [w EXCEPT !.pc = "done"]]
    /\ UNCHANGED <<look, qt>>
    /\ UNCHANGED <<leaseVars, armVars, busVars>>

\* The setLimit call thread t is in: its number, the limits of the joint when
\* it began and the limits it is to leave
LimitCall(t) ==
    [n   |-> IF Busy(t) /\ work[t].op = "setLimit" THEN work[t].n ELSE 0,
     old |-> IF work[t].j0 = None THEN <<NoArg, NoArg>>
             ELSE <<work[t].j0.min, work[t].j0.max>>,
     new |-> IF work[t].j0 = None THEN <<NoArg, NoArg>>
             ELSE <<IF work[t].minL # NoArg THEN work[t].minL ELSE work[t].j0.min,
                    IF work[t].maxL # NoArg THEN work[t].maxL ELSE work[t].j0.max>>]

\* Joint.GET for 'limits', line 238: res['min'] = joint['min']
GetMin ==
    /\ look.pc = "idle"
    /\ look' = [pc |-> "min", min |-> joint[driven].min, max |-> NoArg,
                during |-> [t \in Threads |-> LimitCall(t)]]
    /\ UNCHANGED <<work, qt>>
    /\ UNCHANGED <<leaseVars, armVars, busVars>>

\* Joint.GET for 'limits', line 240: res['max'] = joint['max']; during keeps
\* the setLimit calls that were in progress at both reads
GetMax ==
    /\ look.pc = "min"
    /\ look' = [look EXCEPT
                   !.pc = "done",
                   !.max = joint[driven].max,
                   !.during = [t \in Threads |->
                                  IF look.during[t].n = LimitCall(t).n
                                  THEN look.during[t]
                                  ELSE [look.during[t] EXCEPT !.n = 0]]]
    /\ UNCHANGED <<work, qt>>
    /\ UNCHANGED <<leaseVars, armVars, busVars>>

GotoStep(t) == GotoCheck(t) \/ GotoWrite(t) \/ GotoRead(t)

SetLimitStep(t) ==
    \/ SetMinCheck(t) \/ SetMinStore(t) \/ SetMinPos(t)
    \/ SetMaxCheck(t) \/ SetMaxStore(t) \/ SetMaxPos(t)

\* Two threads of the service position the same joint
NextGoto ==
    \/ \E t \in Threads, pos \in Angles : GotoEnter(t, pos)
    \/ \E t \in Threads : GotoStep(t)

SpecGoto == Init /\ [][NextGoto]_vars

\* A thread sets the limits of the joint while a GET reads them
NextLimit ==
    \/ \E minL \in LimitArgs, maxL \in LimitArgs : SetLimitEnter("t1", minL, maxL)
    \/ \E t \in Threads : SetLimitStep(t) \/ GotoStep(t)
    \/ GetMin
    \/ GetMax

SpecLimit == InitService /\ [][NextLimit]_vars

----------------------------------------------------------------------------
(* MeArm.qtest, as MeArm.py run as a program calls it on a new MeArm *)

\* Joint definitions qtest is run with: armDef, a joint that cannot move, a
\* joint at the top of the range with the base not inverted, and a grip whose
\* limits lie between two steps of the sweep.
QtestDefs ==
    {armDef,
     [armDef EXCEPT !.shoulder = [@ EXCEPT !.min = 0, !.max = 0, !.home = 0]],
     [armDef EXCEPT !.wrist = [@ EXCEPT !.min = 1800, !.max = 1800, !.home = 1800],
                    !.base = [@ EXCEPT !.inv = FALSE]],
     [armDef EXCEPT !.grip = [@ EXCEPT !.min = 901, !.max = 904, !.home = 902,
                                       !.inv = TRUE]]}

\* qtest in progress: the statement it is at (pc), the joint of the for loop
\* it is in (JointOrder[i]), a and step, the set_servo_pulsewidth calls of the
\* goto it made last, and whether a goto of the sweep has been passed over.
QtestAt(pc, i, a, step, r, skipped) ==
    [pc |-> pc, i |-> i, a |-> a, step |-> step, writes |-> r.arm.writes,
     skipped |-> skipped]

\* What a goto of qtest leaves
QtestGoes(r, next) ==
    /\ io' = r.arm.io
    /\ joint' = r.arm.joint
    /\ qt' = next
    /\ UNCHANGED <<driven, call, work, look>>
    /\ UNCHANGED <<leaseVars, busVars>>

\* The joint after JointOrder[i] in a for loop, or pc/1 after the last
NextJoint(pc, pcAfter) ==
    IF qt.i < Len(JointOrder) THEN <<pc, qt.i + 1>> ELSE <<pcAfter, 1>>

\* arm.qtest() is called: line 192
QtestBegin ==
    /\ qt.pc = "idle"
    /\ qt' = [qt EXCEPT !.pc = "toMin", !.i = 1]
    /\ UNCHANGED <<work, look>>
    /\ UNCHANGED <<leaseVars, armVars, busVars>>

\* qtest, lines 193 and 194, then a = 0.5 and step = 0.5 of lines 196 and 197
QtestToMin ==
    /\ qt.pc = "toMin"
    /\ LET j  == JointOrder[qt.i]
           r  == goto(Arm(joint, io), j, joint[j].min)
           to == NextJoint("toMin", "sweep")
       IN  QtestGoes(r, IF r.exc # "none"
                        THEN QtestAt("raised", qt.i, qt.a, qt.step, r, qt.skipped)
                        ELSE QtestAt(to[1], to[2], IF to[1] = "sweep" THEN 5 ELSE qt.a,
                                     IF to[1] = "sweep" THEN 5 ELSE qt.step, r,
                                     qt.skipped))

\* The sweep that sets a back to 180 without turning the step round
QtestSweep_NoTurn ==
    /\ qt.pc = "sweep"
    /\ LET j  == JointOrder[qt.i]
           r  == goto(Arm(joint, io), j, qt.a)
           a2 == qt.a + qt.step
           sk == qt.skipped \/ r.exc = "ValueError"
       IN  QtestGoes(r, IF qt.i < Len(JointOrder)
                        THEN QtestAt("sweep", qt.i + 1, qt.a, qt.step, r, sk)
                        ELSE IF a2 >= 1800
                        THEN QtestAt("sweep", 1, 1800, qt.step, r, sk)
                        ELSE QtestAt(IF a2 >= 0 THEN "sweep" ELSE "toMax", 1, a2,
                                     qt.step, r, sk))

\* qtest, lines 200 to 205: the goto of one joint with its ValueError passed
\* over; after the last joint lines 207 to 209 and the test of line 198
QtestSweep ==
    /\ qt.pc = "sweep"
    /\ LET j  == JointOrder[qt.i]
           r  == goto(Arm(joint, io), j, qt.a)
           a2 == qt.a + qt.step
           sk == qt.skipped \/ r.exc = "ValueError"
       IN  QtestGoes(r, IF qt.i < Len(JointOrder)
                        THEN QtestAt("sweep", qt.i + 1, qt.a, qt.step, r, sk)
                        ELSE IF a2 >= 1800
                        THEN QtestAt("sweep", 1, 1800, -5, r, sk)
                        ELSE QtestAt(IF a2 >= 0 THEN "sweep" ELSE "toMax", 1, a2,
                                     qt.step, r, sk))

\* qtest, lines 211 to 213
QtestToMax ==
    /\ qt.pc = "toMax"
    /\ LET j == JointOrder[qt.i]
           r == goto(Arm(joint, io), j, joint[j].max)
       IN  QtestGoes(r, QtestAt(IF r.exc # "none" THEN "raised" ELSE "backToMin",
                                qt.i, qt.a, qt.step, r, qt.skipped))

\* qtest, line 214
QtestBackToMin ==
    /\ qt.pc = "backToMin"
    /\ LET j  == JointOrder[qt.i]
           r  == goto(Arm(joint, io), j, joint[j].min)
           to == NextJoint("toMax", "home")
       IN  QtestGoes(r, IF r.exc # "none"
                        THEN QtestAt("raised", qt.i, qt.a, qt.step, r, qt.skipped)
                        ELSE QtestAt(to[1], to[2], qt.a, qt.step, r, qt.skipped))

\* qtest, line 216: homeAll, joint by joint (lines 147 and 148)
QtestHome ==
    /\ qt.pc = "home"
    /\ LET r  == home(Arm(joint, io), JointOrder[qt.i])
           to == NextJoint("home", "done")
       IN  QtestGoes(r, IF r.exc # "none"
                        THEN QtestAt("raised", qt.i, qt.a, qt.step, r, qt.skipped)
                        ELSE QtestAt(to[1], to[2], qt.a, qt.step, r, qt.skipped))

NextQtest ==
    \/ QtestBegin \/ QtestToMin \/ QtestSweep
    \/ QtestToMax \/ QtestBackToMin \/ QtestHome

\* arm = MeArm(**def)
InitQtest ==
    /\ \E def \in QtestDefs :
          /\ joint = MeArmNew(def).arm.joint
          /\ io = MeArmNew(def).arm.io
          /\ call = [op |-> "init", j |-> "shoulder", pos |-> NoArg,
                     minL |-> NoArg, maxL |-> NoArg, exc |-> MeArmNew(def).exc,
                     ret |-> NoPos, writes |-> MeArmNew(def).arm.writes,
                     joint0 |-> def, io0 |-> [g \in GPIOs |-> 0]]
    /\ driven = "shoulder"
    /\ InitLease /\ InitBus /\ InitSteps

\* qtest runs in the main thread of the program and nothing else runs: a
\* statement that can run does run.
SpecQtest == InitQtest /\ [][NextQtest]_vars /\ WF_vars(NextQtest)

----------------------------------------------------------------------------
(* The control stick: what the requests do to it *)

\* The lease is live at time t: held and not lapsed (lapsed is t > tmout)
Live(stick, t) == stick # None /\ t <= stick.tmout

\* ... and live in the hands of the session with id sid
HeldBy(stick, t, sid) == Live(stick, t) /\ stick.sid = sid

\* The response just sent answers a request op of the GPIO service
Answered(op) == last.op = op /\ last.server = "GPIO"

\* C1: under any interleaving of requests of different sessions a live control
\* stick is never overwritten by a grant to another session, and a session is
\* answered "200 OK, you've got the stick" only when the stick is its own.
C1_ExclusiveGrant ==
    [][ /\ (Live(controlStick, now) /\ controlStick' # None)
            => controlStick'.sid = controlStick.sid
        /\ (last' # last /\ last'.op = "stickGET" /\ last'.status = 200)
            => (controlStick' # None /\ controlStick'.sid = session'[last'.client])
      ]_vars

\* The first half of C1 alone
C1_NoOverwrite ==
    [][ (Live(controlStick, now) /\ controlStick' # None)
            => controlStick'.sid = controlStick.sid ]_vars

\* A joint write reached the hardware or changed a limit.
Actuated ==
    \/ last.writes # <<>>
    \/ \E i \in DOMAIN last.bus : last.bus[i].op # "sleep"
    \/ joint # last.joint0
    \/ io # last.io0

\* C2: a joint write requested through either service is executed only for
\* the holder of a live control stick; any other caller gets the no-control
\* error and nothing is written.
C2_WritesNeedControl ==
    last.op = "jointPUT" =>
        IF HeldBy(last.stick0, last.t0, last.sid)
        THEN last.inControl
        ELSE last.err = "no control" /\ ~Actuated

\* C2 for the GPIO service alone
C2_GpioWritesNeedControl ==
    Answered("jointPUT") =>
        IF HeldBy(last.stick0, last.t0, last.sid)
        THEN last.inControl
        ELSE last.err = "no control" /\ ~Actuated

\* The control stick as ControlStick.GET grants it to client c at time t
Granted(c, t, stick) ==
    /\ stick # None
    /\ stick.sid = c
    /\ session[c] = c
    /\ stick.tmout = t + CONTROL_STICK_TIMEOUT
    /\ stick.ip = RemoteIp(c)

\* The acquire answered with 402, naming the holder and the seconds left
Denied(stick) ==
    /\ last.status = 402
    /\ last.msgName = stick.name
    /\ last.msgIp = stick.ip
    /\ last.msgSecs = stick.tmout - last.t0
    /\ 0 <= last.msgSecs /\ last.msgSecs <= CONTROL_STICK_TIMEOUT

\* C3: an acquire at time now is granted, the stick becoming the caller's until
\* now + 60, whenever the stick is free or lapsed (now > tmout); at
\* now = tmout it still counts as held.
C3_AcquireWhenFree ==
    Answered("stickGET") =>
        /\ ~Live(last.stick0, last.t0) =>
              last.status = 200 /\ Granted(last.client, last.t0, controlStick)
        /\ (last.stick0 # None /\ last.t0 = last.stick0.tmout
               /\ last.stick0.sid # last.sid) => last.status = 402

\* C3 for the acquires that pass a name
C3_NamedAcquireWhenFree ==
    (Answered("stickGET") /\ last.name # NoName) =>
        /\ ~Live(last.stick0, last.t0) =>
              last.status = 200 /\ Granted(last.client, last.t0, controlStick)
        /\ (last.stick0 # None /\ last.t0 = last.stick0.tmout
               /\ last.stick0.sid # last.sid) => last.status = 402

\* A acquires at 0, B is denied at 10 and granted at 70
C3_DisplacedAt70 ==
    /\ Answered("stickGET") /\ last.status = 200 /\ last.t0 = 70
    /\ last.stick0 # None /\ last.stick0.tmout = 60
    /\ last.stick0.sid # last.client
    /\ Granted(last.client, 70, controlStick)

\* C4: an acquire by a caller other than the live holder is denied with the
\* holder's name and tmout - now seconds, a value in 0..60, and leaves the
\* control stick as it was.
C4_DeniedKeepsLease ==
    (Answered("stickGET") /\ Live(last.stick0, last.t0)
        /\ last.stick0.sid # last.sid) =>
        Denied(last.stick0) /\ controlStick = last.stick0

\* C4 for the acquires that pass a name
C4_NamedDeniedKeepsLease ==
    (Answered("stickGET") /\ last.name # NoName /\ Live(last.stick0, last.t0)
        /\ last.stick0.sid # last.sid) =>
        Denied(last.stick0) /\ controlStick = last.stick0

\* What the tool leaves behind for a caller with session id sid that found
\* the stick s0 at time t: the flag inControl and the stick s1.
Touched(s0, t, sid, inControl, s1) ==
    /\ inControl = HeldBy(s0, t, sid)
    /\ s1 = IF HeldBy(s0, t, sid)
            THEN [s0 EXCEPT !.tmout = t + CONTROL_STICK_TIMEOUT]
            ELSE IF Live(s0, t) THEN s0 ELSE None

C7_Reacquire ==
    (Answered("stickGET") /\ HeldBy(last.stick0, last.t0, last.sid)) =>
        /\ last.status = 200
        /\ controlStick = [last.stick0 EXCEPT !.tmout = last.t0 + CONTROL_STICK_TIMEOUT]

\* C7 for the acquires that pass a name
C7_NamedReacquire ==
    (Answered("stickGET") /\ last.name # NoName
        /\ HeldBy(last.stick0, last.t0, last.sid)) =>
        /\ last.status = 200
        /\ controlStick = [last.stick0 EXCEPT !.tmout = last.t0 + CONTROL_STICK_TIMEOUT]

----------------------------------------------------------------------------
(* The joint model: limits and positioning *)

Pos(j) == getPos(joint[j], io)

\* C8: for every joint 0 <= minAngle <= pos <= maxAngle <= 180 after
\* construction and after any sequence of goto, home, homeAll and setLimit
\* calls, pos being the position read back from the channel.
C8_LimitsEnclosePosition ==
    \A j \in Joints :
        /\ 0 <= joint[j].min
        /\ joint[j].min <= Pos(j)
        /\ Pos(j) <= joint[j].max
        /\ joint[j].max <= 1800

\* The two ways C8 fails: a read-back one tenth above the maximum, and a
\* minimum left above the maximum by a setLimit that failed half way.
C8_ReadBackAboveMax == \E j \in Joints : Pos(j) > joint[j].max
C8_MinAboveMax == \E j \in Joints : joint[j].min > joint[j].max

OutOfRange(jt, pos) == pos < jt.min \/ pos > jt.max

\* C9: goto with a target below min or above max raises ValueError, makes no
\* set_servo_pulsewidth call and leaves limits and read-back position as they
\* were, for inverted and non-inverted joints.
C9_OutOfRangeRejected ==
    (call.op = "goto" /\ OutOfRange(call.joint0[call.j], call.pos)) =>
        /\ call.exc = "ValueError"
        /\ call.writes = <<>>
        /\ joint = call.joint0
        /\ io = call.io0
        /\ \A j \in Joints : Pos(j) = getPos(call.joint0[j], call.io0)

C9_Witness ==
    /\ call.op = "goto"
    /\ call.joint0[call.j].inv
    /\ call.pos < call.joint0[call.j].min
    /\ call.exc = "ValueError"

\* The pulse width a non-inverted joint with limits 50..140 is sent by goto(pos)
NonInvertedPulse(pos) ==
    goto(Arm(armDef, [g \in GPIOs |-> 0]), "shoulder", pos).arm.writes[1].pw

\* C10: goto accepts exactly the targets inside [min, max] (checked before
\* inversion) and then sends the pulse of max - (pos - min) for an inverted
\* joint and of pos otherwise; the inverted angle is the reflection of pos
\* about the middle of [min, max] and lies inside the limits; with min = 50 and
\* max = 140 an inverted goto(90) sends what a non-inverted goto(100) sends.
C10_InversionLaw ==
    call.op = "goto" =>
        LET jt == call.joint0[call.j]
            a  == IF jt.inv THEN jt.max - (call.pos - jt.min) ELSE call.pos
        IN  /\ (call.exc = "none") = (jt.min <= call.pos /\ call.pos <= jt.max)
            /\ call.exc = "none" =>
                 /\ call.writes = <<[gpio |-> jt.gpio, pw |-> angleToPulse(a)]>>
                 /\ io[jt.gpio] = angleToPulse(a)
                 /\ jt.min <= a /\ a <= jt.max
                 /\ jt.inv => a - jt.min = jt.max - call.pos
                 /\ (jt.inv /\ jt.min = 500 /\ jt.max = 1400 /\ call.pos = 900)
                       => io[jt.gpio] = NonInvertedPulse(1000)

C10_Witness ==
    /\ call.op = "goto"
    /\ call.exc = "none"
    /\ call.joint0[call.j].inv
    /\ call.joint0[call.j].min = 500
    /\ call.joint0[call.j].max = 1400
    /\ call.pos = 900
    /\ io[call.joint0[call.j].gpio] = NonInvertedPulse(1000)

\* The request setLimit(minL, maxL) is one the limit rules refuse for joint jt.
BadMin(jt, minL, maxL) ==
    minL # NoArg /\ (minL > (IF maxL # NoArg THEN maxL ELSE jt.max) \/ minL < 0)

BadMax(jt, minL, maxL) ==
    maxL # NoArg /\ (maxL < (IF minL # NoArg THEN minL ELSE jt.min) \/ maxL > 1800)

\* C11: setLimit refuses with ValueError, the exception Joint.PUT turns into a
\* client error and the one goto raises, every request with minL above the
\* effective maximum, minL < 0, maxL below the effective minimum or maxL > 180.
C11_InvalidLimitRejected ==
    (call.op = "setLimit"
        /\ (BadMin(call.joint0[call.j], call.minL, call.maxL)
              \/ BadMax(call.joint0[call.j], call.minL, call.maxL)))
      => call.exc = "ValueError"

\* C11 for the requests whose minimum passes and whose maximum does not
C11_BadMaxRejected ==
    (call.op = "setLimit"
        /\ ~BadMin(call.joint0[call.j], call.minL, call.maxL)
        /\ BadMax(call.joint0[call.j], call.minL, call.maxL))
      => call.exc = "ValueError"

\* Every refused request fails, with one exception or the other
C11_BadLimitFails ==
    (call.op = "setLimit"
        /\ (BadMin(call.joint0[call.j], call.minL, call.maxL)
              \/ BadMax(call.joint0[call.j], call.minL, call.maxL)))
      => call.exc # "none"

\* C12: a setLimit call that fails leaves min, max and the position as they
\* were, also when both limits are given and only the second, or the move to
\* the new limit, fails.
C12_FailedSetLimitChangesNothing ==
    (call.op = "setLimit" /\ call.exc # "none") =>
        /\ joint = call.joint0
        /\ io = call.io0

\* C12 for the calls that pass one limit only and fail its validation
C12_SingleLimitRefusedChangesNothing ==
    (call.op = "setLimit" /\ call.exc # "none"
        /\ (call.minL = NoArg \/ call.maxL = NoArg)
        /\ (BadMin(call.joint0[call.j], call.minL, call.maxL)
              \/ BadMax(call.joint0[call.j], call.minL, call.maxL))) =>
        /\ joint = call.joint0
        /\ io = call.io0

\* C13: after a successful setLimit the position read back lies inside the
\* new limits; a position that was below the new minimum reads the new
\* minimum, one that was above the new maximum reads the new maximum, for
\* inverted and non-inverted joints.
C13_SetLimitRepositions ==
    (call.op = "setLimit" /\ call.exc = "none") =>
        LET p0 == getPos(call.joint0[call.j], call.io0)
            p  == Pos(call.j)
        IN  /\ joint[call.j].min <= p /\ p <= joint[call.j].max
            /\ (call.minL # NoArg /\ p0 < call.minL) => p = call.minL
            /\ (call.maxL # NoArg /\ p0 > call.maxL) => p = call.maxL

\* setLimit(min=60) on a non-inverted joint at position 50 leaves it at 60
C13_MovedTo60 ==
    /\ call.op = "setLimit" /\ call.exc = "none"
    /\ ~joint[call.j].inv
    /\ call.minL = 600
    /\ getPos(call.joint0[call.j], call.io0) = 500
    /\ Pos(call.j) = 600

\* C13 for the non-inverted joints, limits strictly between 0 and 180, and a
\* position that was inside the old limits
C13_NonInvertedRepositions ==
    (call.op = "setLimit" /\ call.exc = "none" /\ ~joint[call.j].inv
        /\ call.joint0[call.j].min <= getPos(call.joint0[call.j], call.io0)
        /\ getPos(call.joint0[call.j], call.io0) <= call.joint0[call.j].max
        /\ call.minL \in {NoArg} \cup (1 .. 1799)
        /\ call.maxL \in {NoArg} \cup (1 .. 1799)) =>
        LET p0 == getPos(call.joint0[call.j], call.io0)
            p  == Pos(call.j)
        IN  /\ joint[call.j].min <= p /\ p <= joint[call.j].max
            /\ (call.minL # NoArg /\ p0 < call.minL) => p = call.minL
            /\ (call.maxL # NoArg /\ p0 > call.maxL) => p = call.maxL

----------------------------------------------------------------------------
(* The register protocol: what a call has put on the bus when it ends *)

\* The calls that are register operations or built on them
RegisterOps ==
    {"getRegister", "getRegisterSubVal", "setRegister", "setRegisterSubValue",
     "joint", "jointLimit"}

IsWrite(x) == x.op \in {"write_byte", "write_byte_data", "write_i2c_block_data"}

\* The trace ends with a completed read of the error register
ErrorRead(bus) ==
    /\ Len(bus) >= 3
    /\ bus[Len(bus) - 2] = Transfer("write_byte", <<RegErr>>)
    /\ bus[Len(bus) - 1] = Settle
    /\ bus[Len(bus)].op = "read_byte" /\ bus[Len(bus)].ok

\* The byte that read returned
ErrorByte(bus) == bus[Len(bus)].data[1]

\* The flags of the table that are set in byte b
DefinedBits(b) == {k \in DOMAIN OpErrors : (b \div k) % 2 = 1}

LowestBit(b) == CHOOSE k \in DefinedBits(b) : \A m \in DefinedBits(b) : k <= m

\* The typed failure of the table for the error byte b
TypedFailure(b) ==
    /\ xfer.exc = "IOError"
    /\ DefinedBits(b) # {} => xfer.code = OpErrors[LowestBit(b)]

\* The call went through the bus without smbus raising, and past the tag check
Transacted ==
    /\ xfer.op \in RegisterOps
    /\ xfer.exc # "ValueError"
    /\ xfer.code # "bus"

\* C14: every register operation, and joint and jointLimit built on them,
\* reads the error register after its transfer and before it returns; it
\* returns normally only if that read was zero, and for a non-zero byte it
\* fails with the typed failure of the error table (ePLimit for 1<<2).
C14_ErrorRegisterChecked ==
    Transacted =>
        /\ ErrorRead(xfer.bus)
        /\ \E i \in 1 .. Len(xfer.bus) - 3 : IsWrite(xfer.bus[i])
        /\ xfer.exc = "none" <=> ErrorByte(xfer.bus) = 0
        /\ ErrorByte(xfer.bus) # 0 =>
              TypedFailure(ErrorByte(xfer.bus)) /\ xfer.ret = NoArg

\* C14 for the error bytes that are keys of the table
C14_TableByteChecked ==
    (Transacted /\ xfer.dev.err \in {0} \cup DOMAIN OpErrors) =>
        /\ ErrorRead(xfer.bus)
        /\ \E i \in 1 .. Len(xfer.bus) - 3 : IsWrite(xfer.bus[i])
        /\ xfer.exc = "none" <=> ErrorByte(xfer.bus) = 0
        /\ ErrorByte(xfer.bus) # 0 =>
              TypedFailure(ErrorByte(xfer.bus)) /\ xfer.ret = NoArg

\* setRegister answered with error bit 1<<2: the position out of limits failure
C14_PositionLimitReported ==
    /\ xfer.op = "setRegister"
    /\ xfer.dev.err = 4
    /\ xfer.exc = "IOError" /\ xfer.code = "ePLimit"

\* C15: for every non-zero byte read from the error register, also one with
\* several flags set or with bits outside the table, getError raises the
\* IOError of the lowest set bit the table defines, and never another kind
\* of error.
C15_LowestFlagRaised ==
    (xfer.op = "getError" /\ ErrorRead(xfer.bus) /\ ErrorByte(xfer.bus) # 0) =>
        TypedFailure(ErrorByte(xfer.bus))

\* C15 for the bytes with exactly one flag of the table set
C15_SingleFlagRaised ==
    (xfer.op = "getError" /\ ErrorRead(xfer.bus)
        /\ ErrorByte(xfer.bus) \in DOMAIN OpErrors) =>
        TypedFailure(ErrorByte(xfer.bus))

\* Every write on the bus is followed by the settle delay
SettledAfterWrites(bus) ==
    \A i \in 1 .. Len(bus) : IsWrite(bus[i]) => (i < Len(bus) /\ bus[i + 1] = Settle)

\* C16: on every path out of a register operation, including a failure of the
\* address or value write itself and a non-zero error register, the settle
\* delay has been observed after the last bus write.
C16_SettleAlwaysPaid ==
    xfer.op \in RegisterOps \cup {"getError"} => SettledAfterWrites(xfer.bus)

\* C16 for the calls in which no transfer raises
C16_SettlePaidWithoutBusError ==
    (xfer.op \in RegisterOps \cup {"getError"} /\ xfer.code # "bus")
        => SettledAfterWrites(xfer.bus)

\* A thread is between the first and the last step of its call
InFlight(t) ==
    thr[t].pc = "run" /\ 1 < thr[t].i /\ thr[t].i <= Len(thr[t].r.bus)

\* C17: with the threads of the service calling register operations on the
\* one bus, at most one transaction is in flight, and every read a thread
\* makes is answered from the register that thread addressed.
C17_OneTransactionInFlight ==
    /\ Cardinality({t \in Threads : InFlight(t)}) <= 1
    /\ \A t \in Threads : thr[t].pc = "run" => ~thr[t].mixed
    /\ xfer # NoXfer => ~xfer.mixed

\* C18: for every angle a of 0..180 in tenths, pulseToAngle(angleToPulse(a))
\* differs from a by at most one tenth (pwMin = 550, pwMax = 2500).
C18_RoundTripWithinTenth ==
    call.op = "convert" =>
        /\ call.back - call.a <= 1
        /\ call.a - call.back <= 1

\* An angle that does not come back as itself
C18_Witness ==
    /\ call.op = "convert"
    /\ call.a = 1800
    /\ call.back = 1801

\* C19: jointLimit sends RegSubMin for 'min' and RegSubMax for 'max'; for any
\* other tag it raises ValueError with nothing written to or read from the
\* bus and no settle delay.
C19_LimitTags ==
    xfer.op = "jointLimit" =>
        IF xfer.tag \in {"min", "max"}
        THEN /\ xfer.bus # <<>>
             /\ xfer.bus[1].data[1] = xfer.reg
             /\ xfer.bus[1].data[2] = (IF xfer.tag = "min" THEN RegSubMin ELSE RegSubMax)
             /\ xfer.exc # "ValueError"
        ELSE xfer.exc = "ValueError" /\ xfer.bus = <<>>

C19_Witness ==
    /\ xfer.op = "jointLimit"
    /\ xfer.tag = "mid"
    /\ xfer.exc = "ValueError"
    /\ xfer.bus = <<>>

\* The trace of one write of val to reg with its error check answered e
WriteTransaction(reg, val, e) ==
    <<Transfer("write_byte_data", <<reg, val>>), Settle,
      Transfer("write_byte", <<RegErr>>), Settle, Transfer("read_byte", <<e>>)>>

\* The trace of one read of reg answered v with its error check answered e
ReadTransaction(reg, v, e) ==
    <<Transfer("write_byte", <<reg>>), Settle, Transfer("read_byte", <<v>>),
      Transfer("write_byte", <<RegErr>>), Settle, Transfer("read_byte", <<e>>)>>

\* C20: joint with pos makes exactly one register write with its error check
\* and returns pos without reading the register; joint without pos makes
\* exactly one register read and returns the byte read.
C20_JointOneTransaction ==
    (xfer.op = "joint" /\ xfer.code # "bus") =>
        /\ xfer.bus = IF xfer.val # NoArg
                      THEN WriteTransaction(xfer.reg, xfer.val, xfer.dev.err)
                      ELSE ReadTransaction(xfer.reg, xfer.dev.val, xfer.dev.err)
        /\ xfer.exc = "none" =>
              xfer.ret = IF xfer.val # NoArg THEN xfer.val ELSE xfer.dev.val

C20_Witness ==
    /\ xfer.op = "joint"
    /\ xfer.val = 90
    /\ xfer.exc = "none"
    /\ xfer.ret = 90
    /\ xfer.dev.val # 90
    /\ \A i \in 1 .. Len(xfer.bus) :
          xfer.bus[i].op = "read_byte" => i = Len(xfer.bus)

----------------------------------------------------------------------------
(* goto, home and homeAll: what they return and in which order they write *)

\* C21: a successful goto returns the position read back after the write,
\* pulseToAngle of the pulse width it has just sent for that joint, not the
\* angle asked for; for a non-inverted joint it is within 0.1 of that angle.
C21_GotoReturnsReadBack ==
    (call.op = "goto" /\ call.exc = "none") =>
        LET jt == call.joint0[call.j] IN
        /\ Len(call.writes) = 1
        /\ call.writes[1].gpio = jt.gpio
        /\ io[jt.gpio] = call.writes[1].pw
        /\ call.ret = pulseToAngle(call.writes[1].pw)
        /\ ~jt.inv => (call.ret - call.pos <= 1 /\ call.pos - call.ret <= 1)

\* A goto whose result is not the angle asked for
C21_Witness ==
    /\ call.op = "goto" /\ call.exc = "none"
    /\ ~call.joint0[call.j].inv
    /\ call.ret = call.pos + 1

\* The home angle of jt lies inside its limits
HomeInside(jt) == jt.min <= jt.home /\ jt.home <= jt.max

\* The pulse width home sends for jt
HomePulse(jt) ==
    angleToPulse(IF jt.inv THEN jt.max - (jt.home - jt.min) ELSE jt.home)

\* The place in the order of the first joint that cannot be homed, 5 if none
FirstStuck(jts) ==
    IF \A i \in 1 .. Len(JointOrder) : HomeInside(jts[JointOrder[i]])
    THEN Len(JointOrder) + 1
    ELSE CHOOSE i \in 1 .. Len(JointOrder) :
            /\ ~HomeInside(jts[JointOrder[i]])
            /\ \A k \in 1 .. i - 1 : HomeInside(jts[JointOrder[k]])

\* C22: homeAll homes base, shoulder, wrist, grip in this order; when a
\* joint's home lies outside its limits its ValueError reaches the caller,
\* the joints before it have been homed and stay so, and nothing else is
\* written.
C22_HomeAllInOrder ==
    call.op = "homeAll" =>
        LET n == FirstStuck(call.joint0) - 1 IN
        /\ JointOrder = <<"base", "shoulder", "wrist", "grip">>
        /\ call.exc = IF n = Len(JointOrder) THEN "none" ELSE "ValueError"
        /\ call.writes =
              [i \in 1 .. n |->
                  [gpio |-> call.joint0[JointOrder[i]].gpio,
                   pw |-> HomePulse(call.joint0[JointOrder[i]])]]
        /\ \A i \in 1 .. Len(JointOrder) :
              LET jt == call.joint0[JointOrder[i]] IN
              io[jt.gpio] = IF i <= n THEN HomePulse(jt) ELSE call.io0[jt.gpio]
        /\ joint = call.joint0

\* homeAll stopped at the wrist after homing base and shoulder
C22_Witness ==
    /\ call.op = "homeAll"
    /\ call.exc = "ValueError"
    /\ Len(call.writes) = 2
    /\ ~HomeInside(joint["wrist"])

\* C27: the home angle stays inside [min, max] through every successful
\* setLimit, so that home and homeAll never raise ValueError.
C27_HomeStaysInside ==
    (call.op = "setLimit" /\ call.exc = "none"
        /\ HomeInside(call.joint0[call.j])) => HomeInside(joint[call.j])

\* home raised ValueError after setLimit calls that all succeeded before it
C27_HomeRaises ==
    /\ call.op = "home"
    /\ call.exc = "ValueError"
    /\ joint[call.j].min <= joint[call.j].max

----------------------------------------------------------------------------
(* The control stick: acquires without a name, and requests racing a change
   of the stick *)

\* The acquire came without a usable display name: none at all, or one that is
\* empty once stripped
Nameless(name) == name = NoName \/ strip(name) = <<>>

\* C28: an acquire with no display name is handled like any other acquire: it
\* is granted when the stick is free or lapsed and the holder is recorded as
\* 'Anonymous', as for an empty or whitespace-only name; the absence of a name
\* never makes the acquire fail.
C28_AnonymousAcquire ==
    (Answered("stickGET") /\ Nameless(last.name)) =>
        /\ last.status \in {200, 402}
        /\ ~Live(last.stick0, last.t0) =>
              /\ last.status = 200
              /\ Granted(last.client, last.t0, controlStick)
              /\ controlStick.name = Anonymous

\* C28 for the whitespace-only name alone
C28_BlankNameIsAnonymous ==
    (Answered("stickGET") /\ last.name # NoName /\ Nameless(last.name)) =>
        /\ last.status \in {200, 402}
        /\ ~Live(last.stick0, last.t0) =>
              /\ last.status = 200
              /\ Granted(last.client, last.t0, controlStick)
              /\ controlStick.name = Anonymous

\* An acquire of the free stick that leaves the name out is answered 500
C28_NoNameFails ==
    /\ Answered("stickGET") /\ last.name = NoName /\ last.stick0 = None
    /\ last.status = 500 /\ controlStick = None

\* C29: a touch or a denied acquire that runs while another caller releases,
\* expires or acquires the stick still ends in a defined outcome: no request
\* dereferences a stick that was just cleared, and no request extends the
\* timeout of, or is marked in control under, a stick that by then belongs to
\* another caller.
C29_DefinedOutcome ==
    [][ /\ (last' # last /\ last'.op \in Ops /\ last'.server = "GPIO")
            => last'.err # "crash"
        /\ \A c \in Clients :
              (req[c].pc = "extend" /\ req'[c].pc # "extend") =>
                  /\ controlStick # None
                  /\ controlStick.sid = req[c].sid
      ]_vars

\* The first half of C29: no request ends in an uncaught exception
C29_NoCrash ==
    [][(last' # last /\ last'.op \in Ops /\ last'.server = "GPIO")
            => last'.err # "crash"]_vars

\* The second half of C29: lines 85 to 87 run on the caller's own stick only
C29_ExtendsOwnStick ==
    [][\A c \in Clients :
          (req[c].pc = "extend" /\ req'[c].pc # "extend" /\ controlStick # None)
              => controlStick.sid = req[c].sid]_vars

\* A request was marked in control under the stick of another session
C29_InControlOfOthers ==
    \E c \in Clients :
        /\ req[c].pc = "handler" /\ req[c].inControl
        /\ controlStick # None /\ controlStick.sid # req[c].sid

----------------------------------------------------------------------------
(* The order of the phases of a register transaction *)

\* The call reads a register: one read of a byte comes before the error check
IsRead(c) ==
    \/ c.op \in {"getRegister", "getRegisterSubVal"}
    \/ c.op \in {"joint", "jointLimit"} /\ c.val = NoArg

\* The write that addresses the error register
IsErrAddr(x) == x.op = "write_byte" /\ x.data = <<RegErr>>

\* The transfer or delay at place i of the trace of call c is the phase that
\* is due there: the address (and sub-value or value) write first, a settle
\* delay after every write, the read of a byte after a settle delay, and the
\* address write of the error register after the read of a read operation or
\* the settle delay of a write operation.
InPhase(c, bus, i) ==
    LET x == bus[i] IN
    IF x.op = "sleep" THEN i > 1 /\ IsWrite(bus[i - 1]) /\ bus[i - 1].ok
    ELSE IF x.op = "read_byte"
    THEN i > 2 /\ bus[i - 1] = Settle /\ IsWrite(bus[i - 2])
    ELSE IF i = 1 THEN IsWrite(x)
    ELSE /\ IsErrAddr(x)
         /\ c.op # "getError"
         /\ IF IsRead(c)
            THEN i = 4 /\ bus[3].op = "read_byte" /\ bus[3].ok
            ELSE i = 3 /\ bus[2] = Settle

\* The call is over: it made no transfer at all, its last transfer failed, or
\* its last transfer is the read of the error register
Finished(c, bus) ==
    \/ bus = <<>>
    \/ ~bus[Len(bus)].ok
    \/ /\ ErrorRead(bus)
       /\ Len(bus) = IF c.op = "getError" THEN 3 ELSE IF IsRead(c) THEN 6 ELSE 5

\* C24: the phases of every register transaction of a caller run strictly in
\* order and are never pipelined: address (and sub-value) write, settle delay,
\* read of one byte (for reads), then the error check (address write of the
\* error register, settle delay, read); a call returns only after its error
\* check, and no bus access of one call is made while another is unfinished.
C24_PhasesInOrder ==
    [][\A t \in Threads :
          /\ (thr[t].pc = "run" /\ thr'[t].pc = "run" /\ thr'[t].i # thr[t].i) =>
                /\ thr'[t].i = thr[t].i + 1
                /\ InPhase(thr[t].call, thr[t].r.bus, thr[t].i)
                /\ \A u \in Threads \ {t} : thr[u].pc = "idle"
          /\ (thr[t].pc = "run" /\ thr'[t].pc = "idle") =>
                /\ Finished(thr[t].call, thr[t].r.bus)
                /\ xfer'.bus = thr[t].r.bus
      ]_vars

\* A read of a limit went through its six phases and returned the byte read
C24_Witness ==
    /\ xfer.op = "getRegisterSubVal" /\ xfer.exc = "none"
    /\ xfer.bus = <<Transfer("write_byte_data", <<xfer.reg, xfer.sub>>), Settle,
                    Transfer("read_byte", <<xfer.dev.val>>),
                    Transfer("write_byte", <<RegErr>>), Settle,
                    Transfer("read_byte", <<0>>)>>
    /\ xfer.ret = xfer.dev.val

----------------------------------------------------------------------------
(* Threads of the service on the one MeArm object *)

\* The pulse width goto sends for angle pos of joint jt
unitOf(jt, pos) ==
    angleToPulse(IF jt.inv THEN jt.max - (pos - jt.min) ELSE pos)

\* The thread's goto has sent its pulse width
Wrote(t) == work[t].op = "goto" /\ work[t].wrote # <<>>

\* C23: when two threads call goto on the same joint at once, every
\* set_servo_pulsewidth made carries the whole pulse width of the goto that
\* makes it, for a target inside the limits, and once both calls have returned
\* the joint's gpio holds the pulse width of one of the two calls, never a
\* mixture.
C23_WholeUnitWritten ==
    LET jt == joint[driven] IN
    /\ \A t \in Threads :
          Wrote(t) =>
              /\ jt.min <= work[t].pos /\ work[t].pos <= jt.max
              /\ work[t].wrote = <<unitOf(jt, work[t].pos)>>
    /\ (\A t \in Threads : Wrote(t) /\ work[t].pc = "done") =>
          io[jt.gpio] \in {unitOf(jt, work[t].pos) : t \in Threads}

\* The two calls overlapped: t1 wrote first and read back what t2 wrote
C23_Witness ==
    /\ \A t \in Threads : Wrote(t) /\ work[t].pc = "done"
    /\ work["t1"].wrote # work["t2"].wrote
    /\ io[joint[driven].gpio] = work["t2"].wrote[1]
    /\ work["t1"].got = pulseToAngle(work["t2"].wrote[1])
    /\ work["t1"].got # pulseToAngle(work["t1"].wrote[1])

\* C25: a GET of the limits that reads min and max while a setLimit call is
\* in progress sees the limits as they were before the call or as the call is
\* to leave them: never min above max, never the new value of one limit with
\* the old value of the other.
C25_NoTornLimits ==
    look.pc = "done" =>
        \A t \in Threads :
           look.during[t].n # 0 =>
              /\ <<look.min, look.max>> \in {look.during[t].old, look.during[t].new}
              /\ look.min <= look.max

\* C25 for the calls that pass one limit, as Joint.PUT makes them
C25_OneLimitNotTorn ==
    look.pc = "done" =>
        \A t \in Threads :
           (look.during[t].n # 0
               /\ (work[t].minL = NoArg \/ work[t].maxL = NoArg)) =>
              /\ <<look.min, look.max>> \in {look.during[t].old, look.during[t].new}
              /\ look.min <= look.max

\* The GET saw min above max
C25_SawMinAboveMax ==
    /\ look.pc = "done" /\ look.during["t1"].n # 0
    /\ look.during["t1"].old[1] <= look.during["t1"].old[2]
    /\ look.min > look.max

\* A setLimit call made line by line by one thread ends as the operator
\* setLimit has it end
C25_LinesAgree ==
    (work["t1"].pc = "done" /\ work["t1"].op = "setLimit") =>
        LET w == work["t1"]
            r == setLimit(Arm([joint EXCEPT ![driven] = w.j0], w.io0), driven,
                          w.minL, w.maxL)
        IN  /\ r.exc = w.exc
            /\ r.arm.joint = joint
            /\ r.arm.io = io
            /\ Len(r.arm.writes) = Len(w.wrote)
            /\ \A i \in 1 .. Len(w.wrote) : r.arm.writes[i].pw = w.wrote[i]

----------------------------------------------------------------------------
(* qtest *)

\* The set_servo_pulsewidth call of the sweep for joint j at angle a: one if
\* the limits of j hold a, none if they do not
SweepWrites(j, a) ==
    IF joint[j].min <= a /\ a <= joint[j].max
    THEN <<[gpio |-> joint[j].gpio, pw |-> unitOf(joint[j], a)]>>
    ELSE <<>>

\* The pulse width written is that of an angle inside the limits of its joint
InsideLimits(w) ==
    \E j \in Joints :
        /\ joint[j].gpio = w.gpio
        /\ angleToPulse(joint[j].min) <= w.pw
        /\ w.pw <= angleToPulse(joint[j].max)

\* C26: qtest ends, for every valid joint definition: it steps a by 0.5 up to
\* 180 and back down to 0; at every step it writes each joint whose limits
\* hold a and passes over the others, going on with the next joint and the
\* next step; every pulse width it writes is that of an angle inside the
\* joint's limits; no part of it raises; and when it returns all four joints
\* are at home.
C26_QtestTerminates ==
    /\ <>(qt.pc = "done")
    /\ <>(qt.pc = "sweep" /\ qt.a = 1800 /\ qt.step = -5)
    /\ <>(qt.pc = "sweep" /\ qt.a = 0 /\ qt.step = -5)
    /\ [][ /\ qt.pc = "sweep" =>
                /\ qt'.pc \in {"sweep", "toMax"}
                /\ qt'.writes = SweepWrites(JointOrder[qt.i], qt.a)
                /\ 0 <= qt.a /\ qt.a <= 1800
                /\ IF qt.i < Len(JointOrder)
                   THEN qt'.i = qt.i + 1 /\ qt'.a = qt.a
                   ELSE qt'.i = 1 /\ qt'.a - qt.a \in {5, -5}
           /\ \A i \in 1 .. Len(qt'.writes) : InsideLimits(qt'.writes[i])
         ]_vars
    /\ [](qt.pc # "raised")
    /\ [](qt.pc = "done" =>
             \A j \in Joints : io[joint[j].gpio] = HomePulse(joint[j]))

\* qtest has returned, after passes in which joints were passed over
C26_Witness ==
    /\ qt.pc = "done" /\ qt.skipped /\ qt.a = -5
    /\ \A j \in Joints : io[joint[j].gpio] = HomePulse(joint[j])
    /\ joint["grip"].min = 901

====
